---- MODULE Spec2Model ----
(***************************************************************************)
(* The output dispatch loop of src/repl/App.tsx and the handlers it calls. *)
(*                                                                         *)
(* One step of the model is one job of the JavaScript event loop: the      *)
(* arrival of a message from the engine (an event of the channel, the      *)
(* answer to a storage request) or of a display surface's answer, and the  *)
(* code it resumes, up to the point where that code waits for the next     *)
(* arrival.  A promise that is already settled when it is awaited does not *)
(* end the step: its continuation runs in the same job.  Every call the    *)
(* code makes on a collaborator slot, on the engine (webR.FS.*, webR.read, *)
(* webR.writeConsole) or on the log (console.error) for an event, and      *)
(* every content.replace of its document, is appended to that event's      *)
(* `calls`, and every call on a collaborator slot to that slot's `order`.  *)
(***************************************************************************)
EXTENDS Integers, Sequences, FiniteSets, TLC

\* Number of events the engine's channel yields in one behaviour.
MaxEvents == 2

\* Number of events the channel yields in one behaviour of SpecInline.
MaxBrowse == 1

VARIABLES
    slot,     \* slot[s]: the binding of collaborator slot s
    pulled,   \* the events webR.read() has yielded, in order
    loop,     \* where the dispatch loop is suspended
    err,      \* the error the dispatch loop terminated with, "" if none
    reads,    \* the pending terminalInterface.read promises: <<i, b>> is
              \* the read of prompt event i, made on binding b
    h,        \* h[i]: the handleBrowseMessage activation of event i
    calls,    \* calls[i]: the calls made for event i and their completions,
              \* in the order they happened
    order,    \* order[s]: the calls made on slot s, in the order they were
              \* made: the event each was made for and the method called
    at        \* at[i]: the bindings, when event i was pulled, of the slots
              \* the handling of event i calls

vars == <<slot, pulled, loop, err, reads, h, calls, order, at>>

Slots == {"terminal", "files", "plot"}

\* A slot holds the fail-fast stub it was constructed with or the
\* implementation a mounted display surface has put in its place.
Stub == "stub"

Bound == "bound"

\* Calls that are not made on a slot carry no binding.
NoSlot == "none"

Ev == 1..MaxEvents

(***************************************************************************)
(* The events of the channel.                                              *)
(***************************************************************************)
\* A path is the sequence of its segments: <<"tmp", "f">> is /tmp/f.
Paths == {<<"tmp", "f">>}

NoPath == <<>>

ScriptTag(src) == "<script src=\"" \o src \o "\"></script>"

LinkTag(href) == "<link href=\"" \o href \o "\">"

\* The relative references the documents use.
JsRefs == {"a.js", "b.js"}

CssRefs == {"a.css", "b.css"}

\* The text of a document is the concatenation of its chunks; a chunk is a
\* piece of plain text or one tag on a line of its own.
Docs == {<<"<p>t</p>">>, <<ScriptTag("a.js")>>, <<LinkTag("a.css")>>}

\* Documents with several references, with both kinds of reference, with the
\* same reference twice, and with tags the two regular expressions do not
\* match.
InlineDocs ==
    Docs \cup {<<"<script>go()</script>", "<link rel=\"icon\" href=\"a.png\">">>,
               <<ScriptTag("a.js"), "<p>t</p>", ScriptTag("b.js")>>,
               <<LinkTag("a.css"), LinkTag("b.css")>>,
               <<LinkTag("a.css"), ScriptTag("a.js")>>,
               <<LinkTag("b.css"), "<p>t</p>", LinkTag("b.css")>>}

NoDoc == <<>>

Event(type, sub, path, del, doc) ==
    [type |-> type, sub |-> sub, path |-> path, del |-> del, doc |-> doc]

CanvasEvents == {"canvasImage", "canvasNewPage", "canvasResize"}

Events ==
    {Event(t, "", NoPath, FALSE, NoDoc) :
        t \in {"stdout", "stderr", "prompt", "view", "closed", "console.warn"}}
    \cup {Event("canvas", s, NoPath, FALSE, NoDoc) : s \in CanvasEvents}
    \cup {Event("pager", "", p, d, NoDoc) : p \in Paths, d \in BOOLEAN}
    \cup {Event("browse", "", p, FALSE, doc) : p \in Paths, doc \in Docs}

Data == <<"out">>

Command == <<"cmd">>

NoArg == <<>>

(***************************************************************************)
(* Error messages of the source.                                           *)
(***************************************************************************)
ErrOpenFile == "Unable to open file, editor not initialised."
ErrOpenData == "Unable to view data, editor not initialised."
ErrOpenHtml == "Unable to view HTML, editor not initialised."
ErrPlot == "Unable to plot, plotting not initialised."
ErrRead == "Unable to read from webR terminal."
ErrReadFatal == "An error occurred reading from the R console terminal."
ErrClosed == "The webR communication channel has been closed"
ErrRejected == "rejected"

(***************************************************************************)
(* Call entries.  res is "ok" (a synchronous call that returned),          *)
(* "throw" (a synchronous call that threw), "issued" (a call that          *)
(* returned a promise), "resolved" or "rejected" (that promise settling).  *)
(***************************************************************************)
Entry(s, op, ev, arg, res, to) ==
    [slot |-> s, op |-> op, ev |-> ev, arg |-> arg, res |-> res, to |-> to]

\* A call on a collaborator slot goes to the slot's binding at call time.
SlotCall(s, op, ev, arg, res) == Entry(s, op, ev, arg, res, slot[s])

EngineCall(op, ev, arg, res) == Entry("engine", op, ev, arg, res, NoSlot)

Log(op, ev, arg) == Entry("log", op, ev, arg, "ok", NoSlot)

NoHandler ==
    [st |-> "none", pend |-> {}, content |-> <<>>, matches |-> <<>>, got |-> <<>>]

\* An entry that is a call, not the settling of an earlier call's promise.
IsCall(e) == e.res \in {"ok", "throw", "issued"}

\* The code makes the calls `entries`, in this order.
Emit(entries) ==
    /\ calls' = [i \in Ev |->
                    LET For(e) == e.ev = i IN calls[i] \o SelectSeq(entries, For)]
    /\ order' = [s \in Slots |->
                    LET On(e) == e.slot = s /\ IsCall(e)
                        made == SelectSeq(entries, On)
                    IN  order[s] \o [k \in 1..Len(made) |->
                                        [ev |-> made[k].ev, op |-> made[k].op]]]

Init ==
    /\ slot = [s \in Slots |-> Stub]
    /\ pulled = <<>>
    /\ loop = "read"
    /\ err = ""
    /\ reads = {}
    /\ h = [i \in Ev |-> NoHandler]
    /\ calls = [i \in Ev |-> <<>>]
    /\ order = [s \in Slots |-> <<>>]
    /\ at = [i \in Ev |-> [s \in Slots |-> NoSlot]]

(***************************************************************************)
(* The dispatch loop: `await webR.read()` yields an event and the switch   *)
(* runs up to the next await.                                              *)
(***************************************************************************)
\* The slots the handling of an event calls.
SlotsOf(ev) ==
    CASE ev.type \in {"stdout", "stderr"} -> {"terminal"}
      [] ev.type = "prompt" -> {"terminal", "files"}
      [] ev.type = "canvas" ->
             IF ev.sub \in {"canvasImage", "canvasNewPage"} THEN {"plot"} ELSE {}
      [] ev.type \in {"pager", "view", "browse"} -> {"files"}
      [] OTHER -> {}

Pulls(ev) ==
    /\ loop = "read"
    /\ Len(pulled) < MaxEvents
    /\ pulled' = Append(pulled, ev)
    /\ at' = [at EXCEPT ![Len(pulled) + 1] =
                  [s \in Slots |-> IF s \in SlotsOf(ev) THEN slot[s] ELSE NoSlot]]

Next_i == Len(pulled) + 1

\* The loop goes round: it stays suspended in webR.read().
Continue(entries) ==
    /\ Emit(entries)
    /\ UNCHANGED <<loop, err>>

\* An exception leaves the switch: the async function of the loop rejects.
Terminate(entries, e) ==
    /\ Emit(entries)
    /\ loop' = "dead"
    /\ err' = e

\* What a synchronous piece of code did: the calls it made and the error it
\* threw, "" when it returned.
Outcome(entries, e) == [entries |-> entries, err |-> e]

Settle(out) ==
    IF out.err = "" THEN Continue(out.entries) ELSE Terminate(out.entries, out.err)

PullStdout ==
    \E ev \in Events :
        /\ ev.type = "stdout"
        /\ Pulls(ev)
        /\ Continue(<<SlotCall("terminal", "println", Next_i, Data, "ok")>>)
        /\ UNCHANGED <<slot, reads, h>>

\* The text is printed as it is.
ErrorHighlight_Plain(text) == text

\* `\x1b[1;31m${output.data}\x1b[m`
ErrorHighlight(text) == <<"\\x1b[1;31m" \o text[1] \o "\\x1b[m">>

PullStderr ==
    \E ev \in Events :
        /\ ev.type = "stderr"
        /\ Pulls(ev)
        /\ Continue(<<SlotCall("terminal", "println", Next_i,
                               ErrorHighlight(Data), "ok")>>)
        /\ UNCHANGED <<slot, reads, h>>

ReadFailure(b) == IF b = Stub THEN ErrRead ELSE ErrRejected

\* The rejection handler passes the reason on to the engine.
ReadRejected_Writes(i, b) ==
    <<Entry("terminal", "read", i, <<ReadFailure(b)>>, "rejected", b),
      Log("console.error", i, <<ReadFailure(b)>>),
      EngineCall("writeConsole", i, <<ReadFailure(b)>>, "ok")>>

\* The rejection handler of the read logs the reason and throws inside the
\* promise chain: the promise `then` returned rejects, and nothing awaits it.
ReadRejected(i, b) ==
    <<Entry("terminal", "read", i, <<ReadFailure(b)>>, "rejected", b),
      Log("console.error", i, <<ReadFailure(b)>>),
      Log("unhandledrejection", i, <<ErrReadFatal>>)>>

\* The read is requested before the refresh is started.
PromptCalls_ReadFirst(i) ==
    <<SlotCall("terminal", "read", i, Data, "issued"),
      SlotCall("files", "refreshFilesystem", i, NoArg, "issued")>>

\* case 'prompt': the refresh is started and not awaited, then the read is
\* requested; its promise is left to settle on its own.
PromptCalls(i) ==
    <<SlotCall("files", "refreshFilesystem", i, NoArg, "issued"),
      SlotCall("terminal", "read", i, Data, "issued")>>

\* The stub's read returns a promise that is rejected already.
PromptCase(i) ==
    IF slot["terminal"] = Stub
    THEN /\ Emit(PromptCalls(i) \o ReadRejected(i, Stub))
         /\ UNCHANGED reads
    ELSE /\ Emit(PromptCalls(i))
         /\ reads' = reads \cup {<<i, slot["terminal"]>>}

PullPrompt ==
    \E ev \in Events :
        /\ ev.type = "prompt"
        /\ Pulls(ev)
        /\ PromptCase(Next_i)
        /\ UNCHANGED <<slot, loop, err, h>>

\* plotInterface.drawImage of the stub throws; newPlot of the stub returns.
handleCanvasMessage(i, ev) ==
    IF ev.sub = "canvasImage"
    THEN IF slot["plot"] = Stub
         THEN Outcome(<<SlotCall("plot", "drawImage", i, <<"image">>, "throw")>>, ErrPlot)
         ELSE Outcome(<<SlotCall("plot", "drawImage", i, <<"image">>, "ok")>>, "")
    ELSE IF ev.sub = "canvasNewPage"
         THEN Outcome(<<SlotCall("plot", "newPlot", i, NoArg, "ok")>>, "")
         ELSE Outcome(<<>>, "")

PullCanvas ==
    \E ev \in Events :
        /\ ev.type = "canvas"
        /\ Pulls(ev)
        /\ Settle(handleCanvasMessage(Next_i, ev))
        /\ UNCHANGED <<slot, reads, h>>

\* filesInterface.openDataInEditor of the stub throws.
handleViewMessage(i, ev) ==
    IF slot["files"] = Stub
    THEN Outcome(<<SlotCall("files", "openDataInEditor", i, <<"title", "data">>, "throw")>>,
                 ErrOpenData)
    ELSE Outcome(<<SlotCall("files", "openDataInEditor", i, <<"title", "data">>, "ok")>>, "")

PullView ==
    \E ev \in Events :
        /\ ev.type = "view"
        /\ Pulls(ev)
        /\ Settle(handleViewMessage(Next_i, ev))
        /\ UNCHANGED <<slot, reads, h>>

\* The case leaves the switch instead of throwing.
ClosedCase_Break(i) == Outcome(<<>>, "")

\* case 'closed': the loop throws.
ClosedCase(i) == Outcome(<<>>, ErrClosed)

PullClosed ==
    \E ev \in Events :
        /\ ev.type = "closed"
        /\ Pulls(ev)
        /\ Settle(ClosedCase(Next_i))
        /\ UNCHANGED <<slot, reads, h>>

KnownTypes ==
    {"stdout", "stderr", "prompt", "canvas", "pager", "view", "browse", "closed"}

\* The default case throws after logging.
DefaultCase_Throws(i, ev) ==
    Outcome(<<Log("console.error", i, <<"Unimplemented output type: " \o ev.type>>),
              Log("console.error", i, Data)>>, "Unimplemented output type")

\* default: two console.error calls, nothing else.
DefaultCase(i, ev) ==
    Outcome(<<Log("console.error", i, <<"Unimplemented output type: " \o ev.type>>),
              Log("console.error", i, Data)>>, "")

PullDefault ==
    \E ev \in Events :
        /\ ev.type \notin KnownTypes
        /\ Pulls(ev)
        /\ Settle(DefaultCase(Next_i, ev))
        /\ UNCHANGED <<slot, reads, h>>

(***************************************************************************)
(* case 'pager': `await handlePagerMessage(...)`.                          *)
(***************************************************************************)
\* handlePagerMessage up to its first await.  The stub's openFileInEditor
\* throws inside the async function, whose promise rejects; the loop's await
\* of it throws.
PagerStart(i, ev) ==
    IF slot["files"] = Stub
    THEN /\ Terminate(<<SlotCall("files", "openFileInEditor", i, ev.path, "throw")>>,
                      ErrOpenFile)
    ELSE /\ Emit(<<SlotCall("files", "openFileInEditor", i, ev.path, "issued")>>)
         /\ loop' = "open"
         /\ UNCHANGED err

PullPager ==
    \E ev \in Events :
        /\ ev.type = "pager"
        /\ Pulls(ev)
        /\ PagerStart(Next_i, ev)
        /\ UNCHANGED <<slot, reads, h>>

\* The binding an issued call of event i was made on.
IssuedTo(s, op, i) ==
    LET k == CHOOSE k \in 1..Len(calls[i]) :
                 /\ calls[i][k].slot = s /\ calls[i][k].op = op
                 /\ calls[i][k].res = "issued"
    IN  calls[i][k].to

Cur == Len(pulled)

\* The unlink is started and not awaited.
PagerAfterOpen_UnlinkNotAwaited(i, ev) ==
    LET done == Entry("files", "openFileInEditor", i, ev.path, "resolved",
                      IssuedTo("files", "openFileInEditor", i))
    IN  IF ev.del
        THEN /\ Emit(<<done, EngineCall("unlink", i, ev.path, "issued")>>)
             /\ loop' = "read"
        ELSE /\ Emit(<<done>>)
             /\ loop' = "read"

\* The file is unlinked whatever the flag says.
PagerAfterOpen_AlwaysUnlink(i, ev) ==
    LET done == Entry("files", "openFileInEditor", i, ev.path, "resolved",
                      IssuedTo("files", "openFileInEditor", i))
    IN  /\ Emit(<<done, EngineCall("unlink", i, ev.path, "issued")>>)
        /\ loop' = "unlink"

\* openFileInEditor resolved: unlink the file when the event asks for it.
PagerAfterOpen(i, ev) ==
    LET done == Entry("files", "openFileInEditor", i, ev.path, "resolved",
                      IssuedTo("files", "openFileInEditor", i))
    IN  IF ev.del
        THEN /\ Emit(<<done, EngineCall("unlink", i, ev.path, "issued")>>)
             /\ loop' = "unlink"
        ELSE /\ Emit(<<done>>)
             /\ loop' = "read"

PagerOpenResolve ==
    /\ loop = "open"
    /\ PagerAfterOpen(Cur, pulled[Cur])
    /\ UNCHANGED <<slot, pulled, err, reads, h, at>>

\* The file is unlinked when the open has failed, too.
PagerOpenReject_Unlinks ==
    /\ loop = "open"
    /\ Emit(<<Entry("files", "openFileInEditor", Cur, pulled[Cur].path, "rejected",
                    IssuedTo("files", "openFileInEditor", Cur)),
              EngineCall("unlink", Cur, pulled[Cur].path, "issued")>>)
    /\ loop' = "unlink"
    /\ UNCHANGED <<slot, pulled, err, reads, h, at>>

\* openFileInEditor rejected: the await in handlePagerMessage throws, and so
\* does the loop's await of handlePagerMessage.
PagerOpenReject ==
    /\ loop = "open"
    /\ Terminate(<<Entry("files", "openFileInEditor", Cur, pulled[Cur].path, "rejected",
                         IssuedTo("files", "openFileInEditor", Cur))>>, ErrRejected)
    /\ UNCHANGED <<slot, pulled, reads, h, at>>

PagerUnlinkResolve ==
    /\ loop = "unlink"
    /\ Emit(<<EngineCall("unlink", Cur, pulled[Cur].path, "resolved")>>)
    /\ loop' = "read"
    /\ UNCHANGED <<slot, pulled, err, reads, h, at>>

PagerUnlinkReject ==
    /\ loop = "unlink"
    /\ Terminate(<<EngineCall("unlink", Cur, pulled[Cur].path, "rejected")>>, ErrRejected)
    /\ UNCHANGED <<slot, pulled, reads, h, at>>

(***************************************************************************)
(* case 'prompt', continued: the promise of terminalInterface.read settles.*)
(***************************************************************************)
\* The read resolves with the user's command, which is written to the engine.
ReadResolve ==
    \E r \in reads :
        /\ reads' = reads \ {r}
        /\ Emit(<<Entry("terminal", "read", r[1], Command, "resolved", r[2]),
                  EngineCall("writeConsole", r[1], Command, "ok")>>)
        /\ UNCHANGED <<slot, pulled, loop, err, h, at>>

ReadReject ==
    \E r \in reads :
        /\ reads' = reads \ {r}
        /\ Emit(ReadRejected(r[1], r[2]))
        /\ UNCHANGED <<slot, pulled, loop, err, h, at>>

(***************************************************************************)
(* case 'browse': `void handleBrowseMessage(...)`.  The call runs the      *)
(* handler up to its first await and the promise it returns is dropped.    *)
(***************************************************************************)
\* url.split('/').slice(0, -1).join('/')
Root(url) == SubSeq(url, 1, Len(url) - 1)

\* `${root}/${match[1]}`
AssetPath(root, rel) == Append(root, rel)

\* The bytes engine storage holds for an asset.
FileData(rel) ==
    CASE rel = "a.js" -> "alert(1)"
      [] rel = "b.js" -> "alert(2)"
      [] rel = "a.css" -> "body{color:red}"
      [] rel = "b.css" -> "p{margin:0}"

bufferToBase64(bytes) ==
    CASE bytes = "alert(1)" -> "YWxlcnQoMSk="
      [] bytes = "alert(2)" -> "YWxlcnQoMik="
      [] bytes = "body{color:red}" -> "Ym9keXtjb2xvcjpyZWR9"
      [] bytes = "p{margin:0}" -> "cHttYXJnaW46MH0="

IsScriptRef(chunk) == \E r \in JsRefs : chunk = ScriptTag(r)

IsLinkRef(chunk) == \E r \in CssRefs : chunk = LinkTag(r)

Match(m0, m1) == [m0 |-> m0, m1 |-> m1]

\* Array.from(content.matchAll(jsRegex)): match[0] is the tag, match[1] its src.
JsMatches(content) ==
    LET tags == SelectSeq(content, IsScriptRef)
    IN  [k \in 1..Len(tags) |->
            Match(tags[k], CHOOSE r \in JsRefs : tags[k] = ScriptTag(r))]

\* Array.from(content.matchAll(cssRegex))
CssMatches(content) ==
    LET tags == SelectSeq(content, IsLinkRef)
    IN  [k \in 1..Len(tags) |->
            Match(tags[k], CHOOSE r \in CssRefs : tags[k] = LinkTag(r))]

\* content.replace(m0, repl): the first occurrence only.  The replacement
\* text is given as the chunks it is made of.
ReplaceFirst(content, m0, repl) ==
    IF \E k \in 1..Len(content) : content[k] = m0
    THEN LET k == CHOOSE k \in 1..Len(content) :
                      /\ content[k] = m0
                      /\ \A j \in 1..(k - 1) : content[j] # m0
         IN  SubSeq(content, 1, k - 1) \o repl \o SubSeq(content, k + 1, Len(content))
    ELSE content

InlinedScript(uri) ==
    "\n      <script type=\"text/javascript\" src=\"" \o uri \o "\"></script>\n    "

cssBaseStyle == "<style>body{font-family: sans-serif;}</style>"

InlinedLink(uri) == "<link rel=\"stylesheet\" href=\"" \o uri \o "\"/>"

\* The replacement of script match k.
JsHtml(k, uri) == <<InlinedScript(uri)>>

\* Every replacement carries the base style.
CssHtml_AlwaysStyle(k, uri) == <<cssBaseStyle, InlinedLink(uri)>>

\* The replacement of stylesheet match k: injectedBaseStyle is false in the
\* first iteration of the forEach only.
CssHtml(k, uri) ==
    IF k = 1 THEN <<cssBaseStyle, InlinedLink(uri)>> ELSE <<InlinedLink(uri)>>

\* jsMatches.forEach(...), from match k on.
RECURSIVE ReplaceScripts(_, _, _, _)
ReplaceScripts(content, matches, got, k) ==
    IF k > Len(matches) THEN content
    ELSE ReplaceScripts(ReplaceFirst(content, matches[k].m0, JsHtml(k, got[k])),
                        matches, got, k + 1)

\* cssMatches.forEach(...), from match k on.
RECURSIVE ReplaceLinks(_, _, _, _)
ReplaceLinks(content, matches, got, k) ==
    IF k > Len(matches) THEN content
    ELSE ReplaceLinks(ReplaceFirst(content, matches[k].m0, CssHtml(k, got[k])),
                      matches, got, k + 1)

\* The content.replace calls of the two forEach loops, in the order they are
\* made: what is replaced and what replaces it.
Replace(i, m0, repl) ==
    Entry("content", "replace", i, <<<<m0>>, repl>>, "ok", NoSlot)

ScriptReplaces(i, matches, got) ==
    [k \in 1..Len(matches) |-> Replace(i, matches[k].m0, JsHtml(k, got[k]))]

LinkReplaces(i, matches, got) ==
    [k \in 1..Len(matches) |-> Replace(i, matches[k].m0, CssHtml(k, got[k]))]

\* webR.FS.readFile(...) for every match, in match order.
AssetReads(i, root, matches) ==
    [k \in 1..Len(matches) |->
        EngineCall("readFile", i, AssetPath(root, matches[k].m1), "issued")]

Reading(st, content, matches) ==
    [st |-> st, pend |-> 1..Len(matches), content |-> content,
     matches |-> matches, got |-> [k \in 1..Len(matches) |-> ""]]

Ended(st, content) ==
    [st |-> st, pend |-> {}, content |-> content, matches |-> <<>>, got |-> <<>>]

\* The handler up to `await webR.FS.readFile(url)`.
BrowseStart(i, ev) ==
    /\ h' = [h EXCEPT ![i] = Reading("root", <<>>, <<>>)]
    /\ Continue(<<EngineCall("readFile", i, ev.path, "issued")>>)

PullBrowse ==
    \E ev \in Events :
        /\ ev.type = "browse"
        /\ Pulls(ev)
        /\ BrowseStart(Next_i, ev)
        /\ UNCHANGED <<slot, reads>>

\* A rejection inside the handler rejects the dropped promise.
BrowseFails(i, entries, e) ==
    /\ h' = [h EXCEPT ![i] = Ended("failed", h[i].content)]
    /\ Emit(Append(entries, Log("unhandledrejection", i, <<e>>)))

\* The handler calls the implementation the slot held when the event was
\* pulled.
BrowseOpen_Snapshot(i, entries, content) ==
    IF at[i]["files"] = Stub
    THEN BrowseFails(i, Append(entries,
                               Entry("files", "openHtmlInEditor", i,
                                     <<content, pulled[i].path>>, "throw", Stub)),
                     ErrOpenHtml)
    ELSE /\ h' = [h EXCEPT ![i] = Ended("done", content)]
         /\ Emit(Append(entries, Entry("files", "openHtmlInEditor", i,
                                        <<content, pulled[i].path>>, "ok", Bound)))

\* filesInterface.openHtmlInEditor(content, url); the stub's throws.
BrowseOpen(i, entries, content) ==
    IF slot["files"] = Stub
    THEN BrowseFails(i, Append(entries,
                               SlotCall("files", "openHtmlInEditor", i,
                                        <<content, pulled[i].path>>, "throw")),
                     ErrOpenHtml)
    ELSE /\ h' = [h EXCEPT ![i] = Ended("done", content)]
         /\ Emit(Append(entries, SlotCall("files", "openHtmlInEditor", i,
                                           <<content, pulled[i].path>>, "ok")))

\* The base style is put in front of a document without stylesheet matches.
BrowseCssPhase_AlwaysStyle(i, entries, content) ==
    LET matches == CssMatches(content)
    IN  IF matches = <<>>
        THEN BrowseOpen(i, entries, <<cssBaseStyle>> \o content)
        ELSE /\ h' = [h EXCEPT ![i] = Reading("css", content, matches)]
             /\ Emit(entries \o AssetReads(i, Root(pulled[i].path), matches))

\* The stylesheet phase, entered with the scripts replaced: the references of
\* the new text are matched and all their reads are started; with no match
\* Promise.all([]) is already resolved and the handler runs on.
BrowseCssPhase(i, entries, content) ==
    LET matches == CssMatches(content)
    IN  IF matches = <<>>
        THEN BrowseOpen(i, entries, ReplaceLinks(content, matches, <<>>, 1))
        ELSE /\ h' = [h EXCEPT ![i] = Reading("css", content, matches)]
             /\ Emit(entries \o AssetReads(i, Root(pulled[i].path), matches))

\* The script phase, entered with the decoded root document.
BrowseJsPhase(i, entries, content) ==
    LET matches == JsMatches(content)
    IN  IF matches = <<>>
        THEN BrowseCssPhase(i, entries, ReplaceScripts(content, matches, <<>>, 1))
        ELSE /\ h' = [h EXCEPT ![i] = Reading("js", content, matches)]
             /\ Emit(entries \o AssetReads(i, Root(pulled[i].path), matches))

\* The root document arrives.
BrowseRootResolve ==
    \E i \in 1..Len(pulled) :
        /\ h[i].st = "root"
        /\ BrowseJsPhase(i, <<EngineCall("readFile", i, pulled[i].path, "resolved")>>,
                         pulled[i].doc)
        /\ UNCHANGED <<slot, pulled, loop, err, reads, at>>

BrowseRootReject ==
    \E i \in 1..Len(pulled) :
        /\ h[i].st = "root"
        /\ BrowseFails(i, <<EngineCall("readFile", i, pulled[i].path, "rejected")>>,
                       ErrRejected)
        /\ UNCHANGED <<slot, pulled, loop, err, reads, at>>

DataUriPrefix(st) ==
    IF st = "js" THEN "data:text/javascript;base64," ELSE "data:text/css;base64,"

\* `"data:text/...;base64," + enc` for the asset `rel`.
DataUri(st, rel) == DataUriPrefix(st) \o bufferToBase64(FileData(rel))

AssetDone(i, k, res) ==
    <<EngineCall("readFile", i,
                 AssetPath(Root(pulled[i].path), h[i].matches[k].m1), res)>>

\* The handler after `await Promise.all(...)` of its phase, with the data
\* URIs `got`: the forEach loop and what follows it.
AfterReads(i, entries, got) ==
    IF h[i].st = "js"
    THEN BrowseCssPhase(i, entries \o ScriptReplaces(i, h[i].matches, got),
                        ReplaceScripts(h[i].content, h[i].matches, got, 1))
    ELSE BrowseOpen(i, entries \o LinkReplaces(i, h[i].matches, got),
                    ReplaceLinks(h[i].content, h[i].matches, got, 1))

\* The reference is replaced as soon as its own read has completed.
AssetResolved_ReplaceOnArrival(i, k) ==
    LET got == [h[i].got EXCEPT ![k] = DataUri(h[i].st, h[i].matches[k].m1)]
        m0  == h[i].matches[k].m0
        one == IF h[i].st = "js" THEN Replace(i, m0, JsHtml(k, got[k]))
               ELSE Replace(i, m0, CssHtml(k, got[k]))
    IN  IF h[i].pend # {k}
        THEN /\ h' = [h EXCEPT ![i].pend = @ \ {k}, ![i].got = got]
             /\ Emit(Append(AssetDone(i, k, "resolved"), one))
        ELSE AfterReads(i, AssetDone(i, k, "resolved"), got)

\* The data URI is stored under the position at which its read completed.
AssetResolved_ArrivalIndex(i, k) ==
    LET n   == Len(h[i].matches) - Cardinality(h[i].pend) + 1
        got == [h[i].got EXCEPT ![n] = DataUri(h[i].st, h[i].matches[k].m1)]
    IN  IF h[i].pend # {k}
        THEN /\ h' = [h EXCEPT ![i].pend = @ \ {k}, ![i].got = got]
             /\ Emit(AssetDone(i, k, "resolved"))
        ELSE AfterReads(i, AssetDone(i, k, "resolved"), got)

\* Asset read k of handler i resolves: its data URI is stored under the
\* match's index.  When it was the last one pending, Promise.all resolves
\* and the handler runs on to its next await.
AssetResolved(i, k) ==
    LET got == [h[i].got EXCEPT ![k] = DataUri(h[i].st, h[i].matches[k].m1)]
    IN  IF h[i].pend # {k}
        THEN /\ h' = [h EXCEPT ![i].pend = @ \ {k}, ![i].got = got]
             /\ Emit(AssetDone(i, k, "resolved"))
        ELSE AfterReads(i, AssetDone(i, k, "resolved"), got)

BrowseAssetResolve ==
    \E i \in 1..Len(pulled) : \E k \in h[i].pend :
        /\ h[i].st \in {"js", "css"}
        /\ AssetResolved(i, k)
        /\ UNCHANGED <<slot, pulled, loop, err, reads, at>>

\* The failed read is left out and the handler goes on with the others.
AssetRejected_Ignored(i, k) ==
    IF h[i].pend # {k}
    THEN /\ h' = [h EXCEPT ![i].pend = @ \ {k}]
         /\ Emit(AssetDone(i, k, "rejected"))
    ELSE AfterReads(i, AssetDone(i, k, "rejected"), h[i].got)

\* Asset read k of handler i rejects: Promise.all rejects and so does the
\* handler, whatever the other reads do.
AssetRejected(i, k) == BrowseFails(i, AssetDone(i, k, "rejected"), ErrRejected)

BrowseAssetReject ==
    \E i \in 1..Len(pulled) : \E k \in h[i].pend :
        /\ h[i].st \in {"js", "css"}
        /\ AssetRejected(i, k)
        /\ UNCHANGED <<slot, pulled, loop, err, reads, at>>

(***************************************************************************)
(* A display surface mounts and rebinds its slot in place.                 *)
(***************************************************************************)
Rebind ==
    \E s \in Slots :
        /\ slot[s] = Stub
        /\ slot' = [slot EXCEPT ![s] = Bound]
        /\ UNCHANGED <<pulled, loop, err, reads, h, calls, order, at>>

Next ==
    \/ PullStdout
    \/ PullStderr
    \/ PullPrompt
    \/ PullCanvas
    \/ PullPager
    \/ PullView
    \/ PullBrowse
    \/ PullClosed
    \/ PullDefault
    \/ PagerOpenResolve
    \/ PagerOpenReject
    \/ PagerUnlinkResolve
    \/ PagerUnlinkReject
    \/ ReadResolve
    \/ ReadReject
    \/ BrowseRootResolve
    \/ BrowseRootReject
    \/ BrowseAssetResolve
    \/ BrowseAssetReject
    \/ Rebind

Spec == Init /\ [][Next]_vars

(***************************************************************************)
(* The inlining of documents: the channel yields browse events only, over  *)
(* the richer set of documents.                                            *)
(***************************************************************************)
PullBrowseInline ==
    \E p \in Paths : \E doc \in InlineDocs :
        /\ Len(pulled) < MaxBrowse
        /\ Pulls(Event("browse", "", p, FALSE, doc))
        /\ BrowseStart(Next_i, Event("browse", "", p, FALSE, doc))
        /\ UNCHANGED <<slot, reads>>

NextInline ==
    \/ PullBrowseInline
    \/ BrowseRootResolve
    \/ BrowseRootReject
    \/ BrowseAssetResolve
    \/ BrowseAssetReject
    \/ Rebind

SpecInline == Init /\ [][NextInline]_vars

(***************************************************************************)
(* Properties.                                                             *)
(***************************************************************************)
Done(i) == 1..Len(calls[i])

\* Event i made call `op` with result `res` as its k-th entry.
Is(i, k, op, res) == calls[i][k].op = op /\ calls[i][k].res = res

Has(i, op, res) == \E k \in Done(i) : Is(i, k, op, res)

InFlight(i) == h[i].st \in {"root", "js", "css"}

\* The methods of filesInterface that open something in the document viewer.
ViewerOps == {"openFileInEditor", "openDataInEditor", "openHtmlInEditor"}

\* C1: on each collaborator the calls are made in the order of the events that
\* caused them: a call for a later event never precedes a call for an earlier
\* one.  For the slot of the document viewer the calls compared are those
\* that open a file, a data view or an HTML document.
C1_CallsInEventOrder ==
    \A s \in Slots : \A p, q \in 1..Len(order[s]) :
        (p < q /\ (s = "files" => {order[s][p].op, order[s][q].op} \subseteq ViewerOps))
            => order[s][p].ev <= order[s][q].ev

\* C2: no read of the channel is outstanding while a browse handler is still
\* in flight.
C2_NoPullWhileBrowseInFlight ==
    ~(loop = "read" /\ \E i \in 1..Len(pulled) : InFlight(i))

\* C3: once a paged-document event is pulled, the loop reads the channel again
\* only after the open has completed and, for a transient file, after the
\* delete has completed too.
C3_PagerAwaited ==
    \A i \in 1..Len(pulled) :
        (pulled[i].type = "pager" /\ (i < Len(pulled) \/ loop = "read"))
            => /\ Has(i, "openFileInEditor", "resolved")
               /\ pulled[i].del => Has(i, "unlink", "resolved")

C3_Witness ==
    /\ Len(pulled) = 2
    /\ pulled[1].type = "pager"
    /\ pulled[1].del
    /\ Has(1, "unlink", "resolved")

\* C4: a failure while a paged-document or browse-document event is handled
\* does not stop the dispatch loop: the loop never terminates on such an event.
C4_HandlerFailureNotFatal ==
    loop = "dead" => pulled[Cur].type \notin {"pager", "browse"}

\* C5: a data-view or graphics-update event whose handling fails, as it does
\* on the stub of a slot that is not bound yet, does not terminate the
\* dispatch loop.
C5_StubFailureNotFatal ==
    loop = "dead" => pulled[Cur].type \notin {"view", "canvas"}

\* C6: when the console read of a prompt event fails, the dispatch loop
\* terminates with the read error.
C6_ReadFailureFatal ==
    \A i \in 1..Len(pulled) :
        Has(i, "read", "rejected") => loop = "dead" /\ err = ErrReadFatal

\* C7: a channel-closed event terminates the loop with an error: it is the
\* last event pulled and no call is made for any later event.
C7_ClosedTerminates ==
    \A i \in 1..Len(pulled) :
        pulled[i].type = "closed"
            => /\ i = Len(pulled)
               /\ loop = "dead"
               /\ err = ErrClosed
               /\ \A j \in Ev : j >= i => calls[j] = <<>>

C7_Witness ==
    /\ Len(pulled) < MaxEvents
    /\ pulled # <<>>
    /\ pulled[Cur].type = "closed"

\* C8: an event of an unknown kind is logged and dropped: it makes no call on
\* a collaborator slot nor on the engine, and the loop goes on to read the
\* channel.
C8_UnrecognizedDropped ==
    \A i \in 1..Len(pulled) :
        pulled[i].type \notin KnownTypes
            => /\ calls[i] # <<>>
               /\ \A k \in Done(i) : calls[i][k].slot = "log"
                                     /\ calls[i][k].op = "console.error"
               /\ \A s \in Slots : \A p \in 1..Len(order[s]) : order[s][p].ev # i
               /\ i = Len(pulled) => loop = "read"

C8_Witness ==
    /\ Len(pulled) = 2
    /\ pulled[1].type \notin KnownTypes
    /\ calls[2] # <<>>

\* C9: a storage delete is issued only for a paged-document event whose
\* delete flag is set, for that event's path, and only after the open of that
\* path has completed.
C9_OpenBeforeDelete ==
    \A i \in 1..Len(pulled) : \A k \in Done(i) :
        Is(i, k, "unlink", "issued")
            => /\ pulled[i].type = "pager"
               /\ pulled[i].del
               /\ calls[i][k].arg = pulled[i].path
               /\ \E j \in 1..(k - 1) :
                      /\ Is(i, j, "openFileInEditor", "resolved")
                      /\ calls[i][j].arg = pulled[i].path

C9_Witness ==
    /\ Len(pulled) = 2
    /\ pulled[1].type = "pager" /\ ~pulled[1].del
    /\ Has(1, "openFileInEditor", "resolved")
    /\ pulled[2].type = "pager" /\ pulled[2].del
    /\ Has(2, "unlink", "issued")

\* C10: every prompt event requests the console read, and the file-surface
\* refresh of the same event is issued before it.
C10_RefreshBeforeRead ==
    \A i \in 1..Len(pulled) :
        /\ pulled[i].type = "prompt" => Has(i, "read", "issued")
        /\ \A k \in Done(i) :
               Is(i, k, "read", "issued")
                   => \E j \in 1..(k - 1) : Is(i, j, "refreshFilesystem", "issued")

C10_Witness ==
    /\ Len(pulled) = 2
    /\ pulled[1].type # "prompt"
    /\ pulled[2].type = "prompt"
    /\ Has(2, "read", "issued")

\* C11 as stated: every call an event makes on a collaborator slot goes to
\* the binding the slot had when the event was pulled.
C11_CallsUseDispatchBinding ==
    \A i \in 1..Len(pulled) : \A k \in Done(i) :
        (calls[i][k].slot \in Slots /\ IsCall(calls[i][k]))
            => calls[i][k].to = at[i][calls[i][k].slot]

\* C11, amended: every call on a collaborator slot goes to the binding the
\* slot has when the call is made, so every call of an event pulled after the
\* rebind goes to the new binding, and so does the openHtmlInEditor call of a
\* browse event that was pulled before the rebind; the calls made before the
\* rebind stay as they were.
C11_CallsUseCurrentBinding ==
    [][\A i \in Ev :
          /\ SubSeq(calls'[i], 1, Len(calls[i])) = calls[i]
          /\ \A k \in (Len(calls[i]) + 1)..Len(calls'[i]) :
                 (calls'[i][k].slot \in Slots /\ IsCall(calls'[i][k]))
                     => /\ calls'[i][k].to = slot[calls'[i][k].slot]
                        /\ at'[i][calls'[i][k].slot] = Bound
                               => calls'[i][k].to = Bound]_vars

C11_Witness ==
    \E i \in 1..Len(pulled) :
        /\ pulled[i].type = "browse"
        /\ at[i]["files"] = Stub
        /\ \E k \in Done(i) : /\ Is(i, k, "openHtmlInEditor", "ok")
                              /\ calls[i][k].to = Bound

\* C12: when a read of the inlining of a browse event has failed,
\* openHtmlInEditor is never called for that event, whatever other reads of
\* the event succeeded and whatever replacements were already made.
C12_FailedReadNoOpen ==
    \A i \in 1..Len(pulled) :
        Has(i, "readFile", "rejected")
            => \A k \in Done(i) : calls[i][k].op # "openHtmlInEditor"

C12_Witness ==
    \E i \in 1..Len(pulled) :
        /\ h[i].st = "failed"
        /\ slot["files"] = Bound
        /\ \E j, k, l \in Done(i) :
               /\ j < k /\ k < l
               /\ Is(i, j, "readFile", "resolved")
               /\ calls[i][j].arg # pulled[i].path
               /\ Is(i, k, "replace", "ok")
               /\ Is(i, l, "readFile", "rejected")

\* The text of a document: the concatenation of its chunks.
RECURSIVE Text(_)
Text(content) ==
    IF content = <<>> THEN "" ELSE Head(content) \o Text(Tail(content))

\* The documents openHtmlInEditor was called with for event i.
Opened(i) ==
    {calls[i][k].arg[1] : k \in {j \in Done(i) : calls[i][j].op = "openHtmlInEditor"}}

\* A stylesheet tag rewritten to a data URI.
IsInlinedLink(chunk) == \E r \in CssRefs : chunk = InlinedLink(DataUri("css", r))

\* C13: a document with n matched stylesheet references is opened with
\* exactly n data-URI stylesheet tags; with no base style rule when n = 0;
\* when n >= 1 with exactly one base style rule, immediately before the first
\* data-URI stylesheet tag.  The document `<link href="a.css">` is opened as
\* the base style rule followed by the one rewritten tag.
C13_OneBaseStyle ==
    \A i \in 1..Len(pulled) : \A out \in Opened(i) :
        LET n      == Len(CssMatches(pulled[i].doc))
            styles == {p \in 1..Len(out) : out[p] = cssBaseStyle}
            links  == {p \in 1..Len(out) : IsInlinedLink(out[p])}
        IN  /\ Cardinality(links) = n
            /\ n = 0 => styles = {}
            /\ n >= 1 => \E p \in styles :
                             /\ styles = {p}
                             /\ p + 1 \in links
                             /\ \A q \in links : q > p
            /\ pulled[i].doc = <<LinkTag("a.css")>>
                   => Text(out) = "<style>body{font-family: sans-serif;}</style>"
                                  \o "<link rel=\"stylesheet\" href=\""
                                  \o "data:text/css;base64,Ym9keXtjb2xvcjpyZWR9\"/>"

C13_Witness ==
    \E i \in 1..Len(pulled) :
        /\ Len(CssMatches(pulled[i].doc)) = 2
        /\ Has(i, "openHtmlInEditor", "ok")

C15_LoopStalledWhileReadPending ==
    \A r \in reads : r[1] = Len(pulled)

\* The entries of event i that belong to the script phase ("js") or to the
\* stylesheet phase ("css") of its inlining: the reads of the phase's assets
\* with result `res`, and the phase's replacements.
AssetReadsOf(i, ph, res) ==
    {k \in Done(i) :
        /\ Is(i, k, "readFile", res)
        /\ calls[i][k].arg # pulled[i].path
        /\ calls[i][k].arg[Len(calls[i][k].arg)] \in (IF ph = "js" THEN JsRefs ELSE CssRefs)}

ReplacesOf(i, ph) ==
    {k \in Done(i) :
        /\ calls[i][k].op = "replace"
        /\ IF ph = "js" THEN IsScriptRef(calls[i][k].arg[1][1])
           ELSE IsLinkRef(calls[i][k].arg[1][1])}

MatchesOf(i, ph) ==
    IF ph = "js" THEN JsMatches(pulled[i].doc) ELSE CssMatches(pulled[i].doc)

\* C16: in each phase of an inlining the reads of all the matches are started
\* one right after the other, every one of them has resolved before the first
\* replacement of the phase, and the replacements are made one right after
\* the other, in match order.
C16_ReadsThenReplaces ==
    \A i \in 1..Len(pulled) : \A ph \in {"js", "css"} :
        LET starts == AssetReadsOf(i, ph, "issued")
            ends   == AssetReadsOf(i, ph, "resolved")
            subs   == ReplacesOf(i, ph)
            Run(S) == \A a, b \in S : \A c \in Done(i) : (a < c /\ c < b) => c \in S
        IN  /\ Run(starts)
            /\ starts # {} => Cardinality(starts) = Len(MatchesOf(i, ph))
            /\ subs # {}
                   => /\ Cardinality(ends) = Cardinality(starts)
                      /\ Cardinality(subs) = Cardinality(starts)
                      /\ \A k \in starts \cup ends : \A s \in subs : k < s
            /\ Run(subs)
            /\ \A s \in subs :
                   calls[i][s].arg[1][1]
                       = MatchesOf(i, ph)[Cardinality({t \in subs : t <= s})].m0

C16_Witness ==
    \E i \in 1..Len(pulled) :
        /\ Cardinality(ReplacesOf(i, "js")) = 2
        /\ Has(i, "openHtmlInEditor", "ok")

\* What the case of the switch an event is dispatched to, and the handler and
\* promise callbacks that case starts, can call.
Row(ev) ==
    CASE ev.type \in {"stdout", "stderr"} -> {"println"}
      [] ev.type = "prompt" ->
             {"refreshFilesystem", "read", "writeConsole", "console.error",
              "unhandledrejection"}
      [] ev.type = "canvas" ->
             IF ev.sub = "canvasImage" THEN {"drawImage"}
             ELSE IF ev.sub = "canvasNewPage" THEN {"newPlot"} ELSE {}
      [] ev.type = "pager" -> {"openFileInEditor", "unlink"}
      [] ev.type = "view" -> {"openDataInEditor"}
      [] ev.type = "browse" ->
             {"readFile", "replace", "openHtmlInEditor", "unhandledrejection"}
      [] ev.type = "closed" -> {}
      [] OTHER -> {"console.error"}

\* C17: every call made for an event is one its case of the switch makes.
\* A stdout event makes exactly one call, println with the data as it is; a
\* stderr event exactly one, println with the data between the red-colour
\* escape sequences; a view event exactly one, openDataInEditor; a canvas
\* event exactly one, drawImage for canvasImage and newPlot for
\* canvasNewPage.
C17_OnlyRowCollaborators ==
    \A i \in 1..Len(pulled) :
        LET ev == pulled[i]
            One(s, op, arg) ==
                /\ Len(calls[i]) = 1
                /\ IsCall(calls[i][1])
                /\ calls[i][1].slot = s /\ calls[i][1].op = op /\ calls[i][1].arg = arg
        IN  /\ \A k \in Done(i) : calls[i][k].op \in Row(ev)
            /\ ev.type = "stdout" => One("terminal", "println", <<"out">>)
            /\ ev.type = "stderr"
                   => One("terminal", "println", <<"\\x1b[1;31mout\\x1b[m">>)
            /\ ev.type = "view" => One("files", "openDataInEditor", <<"title", "data">>)
            /\ (ev.type = "canvas" /\ ev.sub = "canvasImage")
                   => One("plot", "drawImage", <<"image">>)
            /\ (ev.type = "canvas" /\ ev.sub = "canvasNewPage")
                   => One("plot", "newPlot", NoArg)

C17_Witness ==
    \E i, j \in 1..Len(pulled) :
        /\ pulled[i].type = "stderr"
        /\ pulled[j].type = "canvas"
        /\ Has(j, "drawImage", "ok")

\* C18: webR.writeConsole is called for prompt events only; for a prompt
\* whose read resolved it is called exactly once, right after the read
\* resolved and with the command the read resolved with; for a prompt whose
\* read was rejected it is not called.
C18_WriteOnlyAfterRead ==
    \A i \in 1..Len(pulled) :
        LET writes == {k \in Done(i) : calls[i][k].op = "writeConsole"}
        IN  /\ pulled[i].type # "prompt" => writes = {}
            /\ Has(i, "read", "rejected") => writes = {}
            /\ Has(i, "read", "resolved") => Cardinality(writes) = 1
            /\ \A k \in writes :
                   /\ k > 1
                   /\ Is(i, k - 1, "read", "resolved")
                   /\ calls[i][k].arg = calls[i][k - 1].arg

C18_Witness ==
    \E i, j \in 1..Len(pulled) :
        /\ Has(i, "read", "rejected")
        /\ Has(j, "read", "resolved")
        /\ Has(j, "writeConsole", "ok")

\* The tag a chunk of the document read has to become: a matched reference
\* the rewritten tag with the data URI of the asset it names, any other chunk
\* itself.
Rewritten(chunk) ==
    IF IsScriptRef(chunk)
    THEN InlinedScript(DataUri("js", CHOOSE r \in JsRefs : chunk = ScriptTag(r)))
    ELSE IF IsLinkRef(chunk)
         THEN InlinedLink(DataUri("css", CHOOSE r \in CssRefs : chunk = LinkTag(r)))
         ELSE chunk

\* C19: in whatever order the reads of an inlining resolve, the k-th
\* replacement of a phase puts in the data URI of the asset the k-th match
\* names, and in the document opened every matched reference stands replaced
\* by the tag with the data URI of its own asset.
C19_EachReferenceItsOwnAsset ==
    \A i \in 1..Len(pulled) :
        /\ \A ph \in {"js", "css"} : \A s \in ReplacesOf(i, ph) :
               LET k    == Cardinality({t \in ReplacesOf(i, ph) : t <= s})
                   repl == calls[i][s].arg[2]
               IN  repl[Len(repl)] = Rewritten(MatchesOf(i, ph)[k].m0)
        /\ \A out \in Opened(i) :
               LET NotStyle(chunk) == chunk # cssBaseStyle
                   tags == SelectSeq(out, NotStyle)
               IN  /\ Len(tags) = Len(pulled[i].doc)
                   /\ \A p \in 1..Len(tags) : tags[p] = Rewritten(pulled[i].doc[p])

C19_Witness ==
    \E i \in 1..Len(pulled) :
        /\ Has(i, "openHtmlInEditor", "ok")
        /\ \E j, k \in AssetReadsOf(i, "js", "resolved") :
               /\ j < k
               /\ calls[i][j].arg = AssetPath(Root(pulled[i].path), "b.js")
               /\ calls[i][k].arg = AssetPath(Root(pulled[i].path), "a.js")

\* C20: for a pager event with the delete flag set whose openFileInEditor
\* threw, was rejected or has not resolved, webR.FS.unlink is not called.
C20_NoDeleteWithoutOpen ==
    \A i \in 1..Len(pulled) :
        (/\ pulled[i].type = "pager"
         /\ pulled[i].del
         /\ \/ Has(i, "openFileInEditor", "throw")
            \/ Has(i, "openFileInEditor", "rejected")
            \/ ~Has(i, "openFileInEditor", "resolved"))
            => \A k \in Done(i) : calls[i][k].op # "unlink"

C20_Witness ==
    \E i \in 1..Len(pulled) :
        /\ pulled[i].type = "pager"
        /\ pulled[i].del
        /\ Has(i, "openFileInEditor", "rejected")
        /\ loop = "dead"

====
